---- MODULE Spec2Model ----
(***************************************************************************)
(* Model of preprocess/functions/unit_handling.py (class UnitHandling).    *)
(*                                                                         *)
(* The state is one UnitHandling instance: the base-unit list read from    *)
(* baseUnits.csv, the rounding precision, and the attributes getBaseUnits  *)
(* stores (baseUnits, dimMatrix, dimAnalysis).  getBaseUnits runs once;     *)
(* getUnitMultiplier is then called repeatedly.                            *)
(*                                                                         *)
(* pint (the unit registry) is an external collaborator.  It is modelled   *)
(* by the table Registry: per unit symbol the dimensionality, the          *)
(* magnitude in SI base units and the constituent unit names.  Numbers of  *)
(* the linear algebra are exact rationals <<num, den>>; the base-unit       *)
(* lists are chosen so that float64 arithmetic takes the same decisions    *)
(* (== 0, == 1, abs in {0, 1}) as exact arithmetic on every one of them.   *)
(***************************************************************************)
EXTENDS Integers, Sequences, FiniteSets, TLC

\* Longest base-unit list (rows of baseUnits.csv) the model reads.
MaxDecl == 4

(***************************************************************************)
(* Sequence helpers                                                        *)
(***************************************************************************)
Range(s) == {s[i] : i \in 1..Len(s)}

SelectIdx(s, Keep(_)) ==
    LET F[i \in 0..Len(s)] ==
            IF i = 0 THEN <<>>
            ELSE IF Keep(i) THEN Append(F[i-1], s[i]) ELSE F[i-1]
    IN  F[Len(s)]

\* the sequence <<Item(1), ..., Item(n)>>, every item evaluated once
Tuple(n, Item(_)) ==
    LET F[i \in 0..n] == IF i = 0 THEN <<>> ELSE Append(F[i-1], Item(i))
    IN  F[n]

\* list.index(x) / first position of x in s (1-based), 0 when absent
IndexOf(s, x) ==
    IF \E i \in 1..Len(s) : s[i] = x
    THEN CHOOSE i \in 1..Len(s) : s[i] = x /\ \A j \in 1..(i-1) : s[j] # x
    ELSE 0

Count(s, x) == Cardinality({i \in 1..Len(s) : s[i] = x})

\* the elements of a set of integers in ascending order
SortedSeq(S) ==
    LET F[k \in 0..Cardinality(S)] ==
            IF k = 0 THEN <<>>
            ELSE LET prev == F[k-1]
                     rest == S \ Range(prev)
                 IN  Append(prev, CHOOSE x \in rest : \A y \in rest : x <= y)
    IN  F[Cardinality(S)]

(***************************************************************************)
(* Exact rationals <<n, d>>, d > 0, in lowest terms                        *)
(***************************************************************************)
Abs(x) == IF x < 0 THEN -x ELSE x

RECURSIVE GCD(_, _)
GCD(a, b) == IF b = 0 THEN a ELSE GCD(b, a % b)

Norm(n, d) ==
    LET s == IF d < 0 THEN -1 ELSE 1
        g == GCD(Abs(n), Abs(d))
    IN  <<(s * n) \div g, (s * d) \div g>>

R(n) == <<n, 1>>
RSub(x, y) == Norm(x[1] * y[2] - y[1] * x[2], x[2] * y[2])
RMul(x, y) == Norm(x[1] * y[1], x[2] * y[2])
RDiv(x, y) == Norm(x[1] * y[2], x[2] * y[1])
RAbs(x) == <<Abs(x[1]), x[2]>>
RIsZero(x) == x[1] = 0
RIsOne(x) == x = <<1, 1>>

(***************************************************************************)
(* UnitKnowledge: the pint registry after load_definitions (line 26-29).   *)
(* dims  : exponents of [length], [mass], [time] (get_dimensionality)      *)
(* mag   : magnitude in SI base units as exponents of <<2, 3, 5, Q>>,      *)
(*         Q = 44173801 (planck_constant = 2^-8 * 3 * 5^-7 * Q * 1e-34)    *)
(* planck: "planck_constant" is among the parsed unit names (to_tuple)     *)
(***************************************************************************)
DimNames == <<"[length]", "[mass]", "[time]">>

Unit(l, m, t, e2, e3, e5, eQ, p) ==
    [dims |-> <<l, m, t>>, mag |-> <<e2, e3, e5, eQ>>, planck |-> p]

Registry ==
    [ton      |-> Unit(0, 1, 0,    3, 0,   3, 0, FALSE),
     kg       |-> Unit(0, 1, 0,    0, 0,   0, 0, FALSE),
     nanogram |-> Unit(0, 1, 0,  -12, 0, -12, 0, FALSE),
     km       |-> Unit(1, 0, 0,    3, 0,   3, 0, FALSE),
     hectare  |-> Unit(2, 0, 0,    4, 0,   4, 0, FALSE),
     liter    |-> Unit(3, 0, 0,   -3, 0,  -3, 0, FALSE),
     hour     |-> Unit(0, 0, 1,    4, 2,   2, 0, FALSE),
     hr       |-> Unit(0, 0, 1,    4, 2,   2, 0, FALSE),
     minute   |-> Unit(0, 0, 1,    2, 1,   1, 0, FALSE),
     Gal      |-> Unit(1, 0, -2,  -2, 0,  -2, 0, FALSE),
     GW       |-> Unit(2, 1, -3,   9, 0,   9, 0, FALSE),
     GWh      |-> Unit(2, 1, -2,  13, 2,  11, 0, FALSE),
     kWh      |-> Unit(2, 1, -2,   7, 2,   5, 0, FALSE),
     h        |-> Unit(2, 1, -1, -42, 1, -41, 1, TRUE),
     per_km   |-> Unit(-1, 0, 0,  -3, 0,  -3, 0, FALSE),
     km_per_hour |-> Unit(1, 0, -1, -1, -2, 1, 0, FALSE),
     stokes   |-> Unit(2, 0, -1,  -4, 0,  -4, 0, FALSE),
     hour2    |-> Unit(0, 0, 2,    8, 4,   4, 0, FALSE)]

\* self.ureg.get_dimensionality(self.ureg(u)): the dimensions with a
\* non-zero exponent, in the registry's key order
DimKeys(u) == SelectIdx(<<1, 2, 3>>, LAMBDA i : Registry[u].dims[i] # 0)

\* The three families of base-unit lists Init draws from: any list of at
\* most MaxDecl symbols of BaseSymbols (repeats included), any list of at most
\* MaxOrderDecl symbols of OrderSymbols that names each symbol once, and any
\* list of at most MaxScenarioDecl symbols of ScenarioSymbols (power, time,
\* energy and mass) that names each symbol once.
BaseSymbols == {"ton", "km", "hour", "hr", "minute", "hectare", "h"}
OrderSymbols == {"km", "hour", "hectare", "liter", "per_km"}
MaxOrderDecl == 5
ScenarioSymbols == {"GW", "hour", "GWh", "ton"}
MaxScenarioDecl == 4

\* a missing unit (float nan) as getUnitMultiplier's argument
NaN == "nan"
InputUnits == DOMAIN Registry \cup {NaN}

(***************************************************************************)
(* getBaseUnits, lines 32-38: baseUnits and the dimensionality matrix      *)
(***************************************************************************)
\* self.baseUnits: a dict, so one key per distinct symbol, in first-seen order
BaseUnitKeys(list) ==
    SelectIdx(list, LAMBDA i : \A j \in 1..(i-1) : list[j] # list[i])

\* the columns .loc[...] = ... adds to the frame (rows after .T): each
\* dimension when a base unit first names it
RECURSIVE DiscoverDims(_, _)
DiscoverDims(list, acc) ==
    IF list = <<>> THEN acc
    ELSE LET keys == DimKeys(Head(list))
             new  == SelectIdx(keys, LAMBDA i : keys[i] \notin Range(acc))
         IN  DiscoverDims(Tail(list), acc \o new)

\* one column of dimMatrix: the unit's exponents over the frame's index,
\* absent entries filled with 0
ColumnOf(u, index) == Tuple(Len(index), LAMBDA r : Registry[u].dims[index[r]])

\* self.dimMatrix after line 38: index = dimensions, columns = the list as
\* read (repeated symbols give repeated column labels)
BuildDimMatrix(list) ==
    LET index == DiscoverDims(list, <<>>)
    IN  [index   |-> index,
         columns |-> list,
         data    |-> Tuple(Len(list), LAMBDA j : ColumnOf(list[j], index))]

(***************************************************************************)
(* getBaseUnits, lines 40-52: columns defined twice or more                *)
(***************************************************************************)
\* self.dimMatrix.T.duplicated(): the labels of the columns equal, by value,
\* to an earlier column (the labels a loop over _dimMatrixDuplicate yields)
DuplicatedLabels(dm) ==
    SelectIdx(dm.columns,
              LAMBDA j : \E i \in 1..(j-1) : dm.data[i] = dm.data[j])

\* lines 48-50: drop every column labelled dup and append the single
\* de-duplicated one
DropDuplicateColumn(dm, dup) ==
    LET first == IndexOf(dm.columns, dup)
        keep(j) == dm.columns[j] # dup
    IN  [index   |-> dm.index,
         columns |-> Append(SelectIdx(dm.columns, keep), dup),
         data    |-> Append(SelectIdx(dm.data, keep), dm.data[first])]

\* len(self.dimMatrix[_duplicate].shape) > 1: the label selects a frame
\* (several columns), not a series
SelectsFrame(dm, dup) == Count(dm.columns, dup) > 1

\* the loop of lines 44-52 over the duplicated labels
RECURSIVE DuplicateLoop(_, _, _)
DuplicateLoop(dm, dups, warned) ==
    IF dups = <<>> THEN [error |-> "none", dimMatrix |-> dm, warned |-> warned]
    ELSE IF SelectsFrame(dm, Head(dups))
         THEN DuplicateLoop(DropDuplicateColumn(dm, Head(dups)), Tail(dups),
                            Append(warned, Head(dups)))
         ELSE [error |-> "DuplicateDimension", dimMatrix |-> dm, warned |-> warned]

(***************************************************************************)
(* pint.util.column_echelon_form(matrix, ntype=float), as called on line   *)
(* 54.  M is the transposed matrix: one row per base unit.  Indices are    *)
(* 1-based here (the code's are 0-based).                                  *)
(***************************************************************************)
Identity(n) ==
    Tuple(n, LAMBDA a : Tuple(n, LAMBDA b : IF a = b THEN R(1) ELSE R(0)))

SwapRows(A, i, r) ==
    Tuple(Len(A), LAMBDA k : IF k = i THEN A[r] ELSE IF k = r THEN A[i] ELSE A[k])

\* the while loop: the first lead column >= lead with a non-zero entry in a
\* row >= r, and the first such row; <<0, 0>> when the columns run out
RECURSIVE FindPivot(_, _, _, _)
FindPivot(M, r, i, lead) ==
    IF ~RIsZero(M[i][lead]) THEN <<i, lead>>
    ELSE IF i + 1 <= Len(M) THEN FindPivot(M, r, i + 1, lead)
    ELSE IF lead + 1 > Len(M[1]) THEN <<0, 0>>
    ELSE FindPivot(M, r, r, lead + 1)

RECURSIVE EchelonLoop(_, _, _, _, _)
EchelonLoop(M, I, swapped, r, lead) ==
    IF r > Len(M) \/ lead > Len(M[1])
    THEN [M |-> M, I |-> I, swapped |-> swapped]
    ELSE LET p == FindPivot(M, r, r, lead)
         IN  IF p[1] = 0
             THEN [M |-> M, I |-> I, swapped |-> swapped]
             ELSE LET i  == p[1]
                      ld == p[2]
                      M1 == SwapRows(M, i, r)
                      I1 == SwapRows(I, i, r)
                      lv == M1[r][ld]
                      Mr == Tuple(Len(M1[r]), LAMBDA c : RDiv(M1[r][c], lv))
                      Ir == Tuple(Len(I1[r]), LAMBDA c : RDiv(I1[r][c], lv))
                      M2 == Tuple(Len(M), LAMBDA k :
                               IF k = r THEN Mr
                               ELSE Tuple(Len(Mr), LAMBDA c :
                                       RSub(M1[k][c], RMul(M1[k][ld], Mr[c]))))
                      I2 == Tuple(Len(M), LAMBDA k :
                               IF k = r THEN Ir
                               ELSE Tuple(Len(Ir), LAMBDA c :
                                       RSub(I1[k][c], RMul(M1[k][ld], Ir[c]))))
                  IN  EchelonLoop(M2, I2, Append(swapped, i), r + 1, ld + 1)

column_echelon_form(dm) ==
    LET M == Tuple(Len(dm.columns), LAMBDA j :
                Tuple(Len(dm.index), LAMBDA r : R(dm.data[j][r])))
    IN  EchelonLoop(M, Identity(Len(M)), <<>>, 1, 1)

(***************************************************************************)
(* checkIfPosNegBoolean, lines 161-171                                     *)
(***************************************************************************)
\* np.array_equal(np.abs(row), np.abs(row).astype(bool)): every entry is
\* -1, 0 or 1
IsPosNegRow(row) == \A c \in 1..Len(row) : RAbs(row[c]) \in {R(0), R(1)}

\* axis=None branch, on a vector
checkIfPosNegBoolean(array) == IsPosNegRow(array)

\* axis=1 branch, on a matrix with at least one row: some row qualifies
checkIfPosNegBooleanAxis(array) ==
    \E k \in 1..Len(array) : IsPosNegRow(array[k])

(***************************************************************************)
(* getBaseUnits, lines 53-82: linearly dependent units                     *)
(***************************************************************************)
\* np.argwhere(np.all(M==0,axis=1)): the all-zero rows of M, ascending
ZeroRows(M) ==
    SelectIdx(Tuple(Len(M), LAMBDA k : k),
              LAMBDA k : \A c \in 1..Len(M[k]) : RIsZero(M[k][c]))

\* list(set(_idxPivot).difference(pivot)), line 61-62
IdxLinDepDimMatrix(nBaseUnits, swapped) ==
    SortedSeq((1..nBaseUnits) \ Range(swapped))

\* np.argwhere(DimOfDependentUnits==1): the <<row, column>> positions of the
\* ones of the z x d sub-matrix, in row-major order
PosOnes(rows, D) ==
    LET z == Len(rows)
        d == Len(D)
        cell(p) == <<((p - 1) \div d) + 1, ((p - 1) % d) + 1>>
    IN  SelectIdx(Tuple(z * d, cell),
                  LAMBDA p : RIsOne(rows[cell(p)[1]][D[cell(p)[2]]]))

\* line 79: dependentDims[posOnes[:,1],:], rows picked by the ones' columns
PivotDependentDims(rows, posOnes) ==
    Tuple(Len(posOnes), LAMBDA k : rows[posOnes[k][2]])

\* The attributes the instance holds when getBaseUnits returns
\* (kind = "none") or raises; dl is the outcome of the duplicate loop
Attributes(keys, dl, kind, depUnits, depDims) ==
    [error |-> kind, warned |-> dl.warned, baseUnits |-> keys,
     dimMatrix |-> dl.dimMatrix,
     dimAnalysis |-> [dependentUnits |-> depUnits,
                      dependentDims  |-> depDims]]

\* lines 80-82: the dependency record is stored, then the assert
ConstructibleCheck(keys, dl, depUnits, dependentDims) ==
    IF checkIfPosNegBooleanAxis(dependentDims)
    THEN Attributes(keys, dl, "ConstructibleBaseUnit", depUnits, dependentDims)
    ELSE Attributes(keys, dl, "none", depUnits, dependentDims)

\* lines 72-79: the rows are reordered unless the diagonal is all ones
ReorderDependentDims(keys, dl, depUnits, rows, D, diagOnes, posOnes) ==
    IF ~diagOnes /\ Len(posOnes) # Len(D)
    THEN Attributes(keys, dl, "DependencyOrder", depUnits, <<>>)
    ELSE IF ~diagOnes /\ \E k \in 1..Len(D) : posOnes[k][2] > Len(rows)
    THEN Attributes(keys, dl, "IndexError", depUnits, <<>>)
    ELSE ConstructibleCheck(keys, dl, depUnits,
             IF diagOnes THEN rows ELSE PivotDependentDims(rows, posOnes))

\* lines 65-72: rows are the z dependency vectors, D the d dependent columns
DependentDims(keys, dl, depUnits, rows, D) ==
    IF Len(rows) = 0 /\ Len(D) = 1
    THEN Attributes(keys, dl, "IndexError", depUnits, <<>>)
    ELSE IF Len(rows) = 0
    THEN Attributes(keys, dl, "ValueError", depUnits, <<>>)
    ELSE IF Len(rows) = 1 /\ Len(D) # 1
    THEN Attributes(keys, dl, "IndexError", depUnits, <<>>)
    ELSE ReorderDependentDims(keys, dl, depUnits, rows, D,
             \A k \in 1..Len(rows) : RIsOne(rows[k][D[k]]),
             PosOnes(rows, D))

\* lines 63-65: the dependent units and the rows of I at idxLinDep
DependentUnits(keys, dl, ech, idxLinDep, D) ==
    DependentDims(keys, dl,
        Tuple(Len(D), LAMBDA k : dl.dimMatrix.columns[D[k]]),
        Tuple(Len(idxLinDep), LAMBDA k : ech.I[idxLinDep[k]]), D)

\* lines 57-62
LinearDependence(keys, dl, ech) ==
    IF Len(ech.swapped) = 1
    THEN Attributes(keys, dl, "TypeError", <<>>, <<>>)
    ELSE DependentUnits(keys, dl, ech, ZeroRows(ech.M),
                        IdxLinDepDimMatrix(Len(keys), ech.swapped))

\* lines 53-56
AfterDuplicates(keys, dl) ==
    IF dl.error # "none" THEN Attributes(keys, dl, dl.error, <<>>, <<>>)
    ELSE IF Len(dl.dimMatrix.columns) = 1 \/ Len(dl.dimMatrix.index) = 1
    THEN Attributes(keys, dl, "numpy.AxisError", <<>>, <<>>)
    ELSE LinearDependence(keys, dl, column_echelon_form(dl.dimMatrix))

\* lines 40-52 on the matrix of lines 32-38
DuplicatesOf(dm) == DuplicateLoop(dm, DuplicatedLabels(dm), <<>>)

\* The whole of getBaseUnits: the attributes it has assigned when it
\* returns (error = "none") or raises.  The numpy errors are the uncaught
\* exceptions of lines 59, 62, 70, 79 and 168 on arrays whose shape squeeze()
\* or an empty selection has changed.
getBaseUnitsResult(list) ==
    AfterDuplicates(BaseUnitKeys(list), DuplicatesOf(BuildDimMatrix(list)))

(***************************************************************************)
(* np.linalg.solve(A, b), lines 127 and 145.  A is given by its columns.   *)
(* LinAlgError when A is not square or is singular; else the unique x.     *)
(***************************************************************************)
RECURSIVE GaussJordan(_, _)
GaussJordan(A, c) ==
    \* A: augmented rows, c: the column being eliminated
    IF c > Len(A) THEN [ok |-> TRUE, rows |-> A]
    ELSE IF \A r \in c..Len(A) : RIsZero(A[r][c]) THEN [ok |-> FALSE, rows |-> A]
    ELSE LET p  == CHOOSE r \in c..Len(A) :
                       /\ ~RIsZero(A[r][c])
                       /\ \A q \in c..(r-1) : RIsZero(A[q][c])
             A1 == SwapRows(A, p, c)
             pr == Tuple(Len(A1[c]), LAMBDA k : RDiv(A1[c][k], A1[c][c]))
             A2 == Tuple(Len(A), LAMBDA r :
                      IF r = c THEN pr
                      ELSE Tuple(Len(pr), LAMBDA k :
                              RSub(A1[r][k], RMul(A1[r][c], pr[k]))))
         IN  GaussJordan(A2, c + 1)

solve(cols, b) ==
    IF Len(cols) # Len(b) \/ Len(cols) = 0
    THEN [error |-> "LinAlgError", x |-> <<>>]
    ELSE LET n   == Len(b)
             aug == Tuple(n, LAMBDA r :
                       Tuple(n + 1, LAMBDA k :
                          IF k <= n THEN R(cols[k][r]) ELSE R(b[r])))
             g   == GaussJordan(aug, 1)
         IN  IF g.ok THEN [error |-> "none",
                           x |-> Tuple(n, LAMBDA k : g.rows[k][n + 1])]
             ELSE [error |-> "LinAlgError", x |-> <<>>]

(***************************************************************************)
(* pint quantities: dims over DimNames and magnitude exponents             *)
(***************************************************************************)
Quantity(u) == [dims |-> Registry[u].dims, mag |-> Registry[u].mag]

\* q * ureg(u) ** k, k an integer
TimesPower(q, u, k) ==
    [dims |-> Tuple(3, LAMBDA i : q.dims[i] + k * Registry[u].dims[i]),
     mag  |-> Tuple(4, LAMBDA i : q.mag[i]  + k * Registry[u].mag[i])]

\* the loops of lines 131-132 and 148-149: combinedUnit *= ureg(unit)**(-power)
RECURSIVE Compose(_, _, _)
Compose(q, units, powers) ==
    IF units = <<>> THEN q
    ELSE Compose(TimesPower(q, Head(units), -(Head(powers)[1])),
                 Tail(units), Tail(powers))

\* log10 of a magnitude in units of 1e-6 (log10 of 2, 3, 5 and Q)
LogMag(m) == m[1] * 301030 + m[2] * 477121 + m[3] * 698970 + m[4] * 7645165

\* multiplier >= 10**(-roundingDecimalPoints), line 157
AboveTolerance(m, digits) == LogMag(m) >= -(digits * 1000000)

\* round(multiplier, digits), line 159: the multiplier itself when it is a
\* multiple of 10**(-digits), else a different (rounded) number
Round(m, digits) ==
    [mag     |-> m,
     rounded |-> ~(m[1] + digits >= 0 /\ m[2] >= 0 /\ m[3] + digits >= 0
                   /\ m[4] >= 0)]

One == [mag |-> <<0, 0, 0, 0>>, rounded |-> FALSE]

(***************************************************************************)
(* getUnitMultiplier, lines 90-159                                         *)
(***************************************************************************)
\* dimMatrix[label]: the data of the column with that label
ColumnData(dm, label) == dm.data[IndexOf(dm.columns, label)]

\* dimMatrix.drop(labels, axis=1).columns
DropLabels(columns, labels) ==
    SelectIdx(columns, LAMBDA j : columns[j] \notin Range(labels))

\* dimMatrix.isin(dimVector).all(axis=0): the labels of the columns equal to v
MatchingColumns(dm, v) ==
    SelectIdx(dm.columns, LAMBDA j : dm.data[j] = v)

Negated(v) == Tuple(Len(v), LAMBDA r : -v[r])

\* np.abs(power) > 1, line 137
OverPowered(power) == Abs(power[1]) > power[2]

\* line 140: the position at which line 142 reads the dependency vector
EntryPosition(reducedColumns, dm, unit) == IndexOf(reducedColumns, unit)

\* line 142: the dependent unit is tried as a substitute for unit
SubstituteTried(dependentDim, reducedColumns, dm, unit, power) ==
    RAbs(dependentDim[EntryPosition(reducedColumns, dm, unit)]) = RAbs(power)

\* lines 143-144: the reduced frame without unit, dependentUnit appended
SubstitutedColumns(reducedColumns, unit, dependentUnit) ==
    Append(SelectIdx(reducedColumns, LAMBDA j : reducedColumns[j] # unit),
           dependentUnit)

\* lines 135-151.  t runs over the (unit, dependent unit) pairs in loop
\* order; zip() stops at the shorter of dependentUnits and dependentDims.
RECURSIVE SubstitutionLoop(_, _, _, _, _, _)
SubstitutionLoop(self, red, x, b, t, tried) ==
    LET deps == self.dimAnalysis
        nDep == IF Len(deps.dependentUnits) < Len(deps.dependentDims)
                THEN Len(deps.dependentUnits) ELSE Len(deps.dependentDims)
        p    == ((t - 1) \div nDep) + 1
        q    == ((t - 1) % nDep) + 1
    IN  IF nDep = 0 \/ t > Len(red) * nDep
        THEN [status |-> "none", units |-> <<>>, powers |-> <<>>, tried |-> tried]
        ELSE IF ~OverPowered(x[p])
                \/ ~SubstituteTried(deps.dependentDims[q], red, self.dimMatrix,
                                    red[p], x[p])
        THEN SubstitutionLoop(self, red, x, b, t + 1, tried)
        ELSE LET temp == SubstitutedColumns(red, red[p], deps.dependentUnits[q])
                 sol  == solve(Tuple(Len(temp), LAMBDA j :
                                  ColumnData(self.dimMatrix, temp[j])), b)
                 now  == tried \cup {<<red[p], deps.dependentUnits[q]>>}
             IN  IF sol.error # "none"
                 THEN [status |-> sol.error, units |-> <<>>, powers |-> <<>>,
                       tried |-> now]
                 ELSE IF checkIfPosNegBoolean(sol.x)
                 THEN [status |-> "found", units |-> temp, powers |-> sol.x,
                       tried |-> now]
                 ELSE SubstitutionLoop(self, red, x, b, t + 1, now)

\* lines 153-159 on the assembled combinedUnit
Finish(q, digits, unit, path, steps, tried) ==
    LET Ret(kind, value, st) ==
            [unit |-> unit, kind |-> kind, value |-> value, path |-> path,
             combined |-> q.mag, steps |-> steps \o st, tried |-> tried]
    IN  IF \E i \in 1..3 : q.dims[i] # 0
        THEN Ret("InternalConsistency", One, <<"unitless">>)
        ELSE IF ~AboveTolerance(q.mag, digits)
        THEN Ret("Tolerance", One, <<"unitless", "tolerance">>)
        ELSE Ret("return", Round(q.mag, digits), <<"unitless", "tolerance", "round">>)

\* A variant of the identity test that runs the 'h' check first, so that a
\* declared base unit naming the planck constant is not taken as a base unit.
IsBaseUnitAfterHourCheck(self, inputUnit) ==
    inputUnit \in Range(self.baseUnits) /\ ~Registry[inputUnit].planck

\* line 98: inputUnit in baseUnits
IsBaseUnit(self, inputUnit) == inputUnit \in Range(self.baseUnits)

\* A variant of the 'h' check that looks for the token "h" among the parsed
\* unit names, which hold pint's canonical name instead: it never fires.
checkIfInvalidHourStringByToken(inputUnit) == inputUnit \in {}

\* checkIfInvalidHourString, lines 173-178: "planck_constant" is among the
\* unit names of the parsed input
checkIfInvalidHourString(inputUnit) == Registry[inputUnit].planck

\* A variant of the direct match that multiplies by the base unit, as the
\* inverse match does.
DirectCombinedTimes(q, baseUnit) == TimesPower(q, baseUnit, 1)

\* line 117: combinedUnit *= _baseUnit**(-1)
DirectCombined(q, baseUnit) == TimesPower(q, baseUnit, -1)

\* line 121: combinedUnit *= _baseUnit
InverseCombined(q, baseUnit) == TimesPower(q, baseUnit, 1)

\* The outcome of getUnitMultiplier(inputUnit) on the instance self:
\* kind "return" with the value returned, or the kind of error raised;
\* path, the resolution step that assembled combinedUnit; steps, the steps
\* run; tried, the substitutions attempted.
getUnitMultiplier(self, digits, inputUnit) ==
    LET dm == self.dimMatrix
        Stop(kind, steps) ==
            [unit |-> inputUnit, kind |-> kind, value |-> One, path |-> "none",
             combined |-> <<0, 0, 0, 0>>, steps |-> steps, tried |-> {}]
    IN  IF IsBaseUnit(self, inputUnit)
        THEN Stop("return", <<"identity">>)
        ELSE IF inputUnit = NaN
        THEN Stop("return", <<"identity", "absent">>)
        ELSE IF checkIfInvalidHourString(inputUnit)
        THEN Stop("AmbiguousUnitToken", <<"identity", "absent", "guard">>)
        ELSE IF \E i \in Range(DimKeys(inputUnit)) : i \notin Range(dm.index)
        THEN Stop("MissingDimension",
                  <<"identity", "absent", "guard", "dimensionality">>)
        ELSE
        LET dimVector == ColumnOf(inputUnit, dm.index)
            q0        == Quantity(inputUnit)
            direct    == MatchingColumns(dm, dimVector)
            inverse   == MatchingColumns(dm, Negated(dimVector))
            pre       == <<"identity", "absent", "guard", "dimensionality", "direct">>
        IN  IF direct # <<>>
            THEN Finish(DirectCombined(q0, direct[1]), digits, inputUnit,
                        "direct", pre, {})
            ELSE IF inverse # <<>>
            THEN Finish(InverseCombined(q0, inverse[1]), digits, inputUnit,
                        "inverse", pre \o <<"inverse">>, {})
            ELSE
            LET red == DropLabels(dm.columns, self.dimAnalysis.dependentUnits)
                sol == solve(Tuple(Len(red), LAMBDA j : ColumnData(dm, red[j])),
                             dimVector)
                st1 == pre \o <<"inverse", "solve">>
            IN  IF sol.error # "none" THEN Stop(sol.error, st1)
                ELSE IF checkIfPosNegBoolean(sol.x)
                THEN Finish(Compose(q0, red, sol.x), digits, inputUnit,
                            "solve", st1, {})
                ELSE
                LET sub == SubstitutionLoop(self, red, sol.x, dimVector, 1, {})
                    st2 == st1 \o <<"substitution">>
                IN  IF sub.status = "found"
                    THEN Finish(Compose(q0, sub.units, sub.powers), digits,
                                inputUnit, "substitution", st2, sub.tried)
                    ELSE [Stop(IF sub.status = "none" THEN "UnresolvedConversion"
                                                      ELSE sub.status, st2)
                          EXCEPT !.tried = sub.tried]

(***************************************************************************)
(* The instance and its operations                                         *)
(***************************************************************************)
VARIABLES
    listBaseUnits,          \* extractBaseUnits(): the rows of baseUnits.csv
    roundingDecimalPoints,  \* self.roundingDecimalPoints
    pc,                     \* "new", "ready" (constructed) or "failed" (raised)
    error,                  \* what getBaseUnits raised, "none" if it returned
    warned,                 \* the labels logging.warning reported as dropped
    baseUnits,              \* self.baseUnits (its keys)
    dimMatrix,              \* self.dimMatrix
    dimAnalysis,            \* self.dimAnalysis
    built,                  \* the three attributes as getBaseUnits left them
    call                    \* the last getUnitMultiplier call and its outcome

vars == <<listBaseUnits, roundingDecimalPoints, pc, error, warned, baseUnits,
          dimMatrix, dimAnalysis, built, call>>

RoundingChoices == {6}

NoCall == [unit |-> "none", kind |-> "none", value |-> One, path |-> "none",
           combined |-> <<0, 0, 0, 0>>, steps |-> <<>>, tried |-> {}]

EmptyFrame == [index |-> <<>>, columns |-> <<>>, data |-> <<>>]
EmptyAnalysis == [dependentUnits |-> <<>>, dependentDims |-> <<>>]

Self == [baseUnits |-> baseUnits, dimMatrix |-> dimMatrix,
         dimAnalysis |-> dimAnalysis]

Lists(symbols, maxLen) == UNION {[1..n -> symbols] : n \in 1..maxLen}

RECURSIVE OnceListsOfLen(_, _)
OnceListsOfLen(symbols, n) ==
    IF n = 0 THEN {<<>>}
    ELSE UNION {{Append(l, s) : s \in symbols \ Range(l)} :
                    l \in OnceListsOfLen(symbols, n - 1)}

OnceLists(symbols, maxLen) ==
    UNION {OnceListsOfLen(symbols, n) : n \in 1..maxLen}

\* the base-unit lists an instance is constructed with
BaseUnitLists ==
    Lists(BaseSymbols, MaxDecl)
        \cup OnceLists(OrderSymbols, MaxOrderDecl)
        \cup OnceLists(ScenarioSymbols, MaxScenarioDecl)

\* __init__, lines 17-20: the arguments are stored, nothing is built yet
Init ==
    /\ listBaseUnits \in BaseUnitLists
    /\ roundingDecimalPoints \in RoundingChoices
    /\ pc = "new"
    /\ error = "none"
    /\ warned = <<>>
    /\ baseUnits = <<>>
    /\ dimMatrix = EmptyFrame
    /\ dimAnalysis = EmptyAnalysis
    /\ built = [baseUnits |-> <<>>, dimMatrix |-> EmptyFrame,
                dimAnalysis |-> EmptyAnalysis]
    /\ call = NoCall

\* __init__, line 21: self.getBaseUnits()
getBaseUnits ==
    /\ pc = "new"
    /\ \E res \in {getBaseUnitsResult(listBaseUnits)} :
           /\ pc' = IF res.error = "none" THEN "ready" ELSE "failed"
           /\ error' = res.error
           /\ warned' = res.warned
           /\ baseUnits' = res.baseUnits
           /\ dimMatrix' = res.dimMatrix
           /\ dimAnalysis' = res.dimAnalysis
           /\ built' = [baseUnits |-> res.baseUnits, dimMatrix |-> res.dimMatrix,
                        dimAnalysis |-> res.dimAnalysis]
    /\ UNCHANGED <<listBaseUnits, roundingDecimalPoints, call>>

\* A variant in which the substitution of lines 143-144 edits self.dimMatrix
\* in place: every unit a substitution was tried for loses its column.
SelfAfterCallInPlace(self, res) ==
    LET gone == {t[1] : t \in res.tried}
        keep(j) == self.dimMatrix.columns[j] \notin gone
    IN  [self EXCEPT !.dimMatrix =
            [index   |-> self.dimMatrix.index,
             columns |-> SelectIdx(self.dimMatrix.columns, keep),
             data    |-> SelectIdx(self.dimMatrix.data, keep)]]

\* The attributes after a call: getUnitMultiplier binds self.baseUnits and
\* self.dimMatrix to locals (lines 94-95), and drop() (lines 125, 143)
\* returns new frames, so line 144 writes to a copy and self is untouched.
SelfAfterCall(self, res) == self

\* getUnitMultiplier(inputUnit) on a constructed instance
CallGetUnitMultiplier(inputUnit) ==
    /\ pc = "ready"
    /\ \E res \in {getUnitMultiplier(Self, roundingDecimalPoints, inputUnit)} :
       \E after \in {SelfAfterCall(Self, res)} :
           /\ call' = res
           /\ baseUnits' = after.baseUnits
           /\ dimMatrix' = after.dimMatrix
           /\ dimAnalysis' = after.dimAnalysis
    /\ UNCHANGED <<listBaseUnits, roundingDecimalPoints, pc, error, warned, built>>

Next ==
    \/ getBaseUnits
    \/ \E inputUnit \in InputUnits : CallGetUnitMultiplier(inputUnit)

Spec == Init /\ [][Next]_vars

(***************************************************************************)
(* Properties                                                              *)
(***************************************************************************)
\* the last operation was a call of getUnitMultiplier
Called == pc = "ready" /\ call.unit # "none"

\* C1: on a constructed instance, getUnitMultiplier of a declared base-unit
\* symbol returns exactly 1 at the identity step: the 'h' check, the
\* dimensionality lookup, the linear solve and the tolerance check do not run.
C1_BaseUnitReturnsOne ==
    Called /\ call.unit \in Range(listBaseUnits)
        => /\ call.kind = "return"
           /\ call.value = One
           /\ call.steps = <<"identity">>

\* a declared base unit, declared twice, was asked for and 1 came back
C1_Witness ==
    /\ Called
    /\ call.unit \in Range(listBaseUnits)
    /\ call.unit \in Range(warned)
    /\ call.kind = "return"
    /\ call.value = One

\* C2 as stated: getUnitMultiplier("h") fails with the ambiguous-unit-token
\* error for every base-unit configuration.
C2_HourTokenAlwaysRejected ==
    Called /\ call.unit = "h" => call.kind = "AmbiguousUnitToken"

\* C2 amended: getUnitMultiplier("h") fails with the ambiguous-unit-token
\* error whenever "h" is not a declared base unit, whether or not the base
\* units cover its dimensions; when "h" is a declared base unit it returns 1.
C2_HourTokenRejectedUnlessBase ==
    Called /\ call.unit = "h"
        => IF "h" \in Range(listBaseUnits)
           THEN call.kind = "return" /\ call.value = One
           ELSE call.kind = "AmbiguousUnitToken"

\* "h" was asked for on base units that do not cover its dimensions, and the
\* ambiguous-unit-token error came back, not the missing-dimension error
C2_Witness ==
    /\ Called
    /\ call.unit = "h"
    /\ "h" \notin Range(listBaseUnits)
    /\ \E i \in Range(DimKeys("h")) : i \notin Range(dimMatrix.index)
    /\ call.kind = "AmbiguousUnitToken"

C3_DuplicatesHandledByMagnitude ==
    LET list == listBaseUnits
        Twins == {p \in (1..Len(list)) \X (1..Len(list)) :
                     /\ p[1] < p[2]
                     /\ Registry[list[p[1]]].dims = Registry[list[p[2]]].dims}
        SameMag(p) == Registry[list[p[1]]].mag = Registry[list[p[2]]].mag
    IN  pc # "new" /\ Twins # {}
            => IF \A p \in Twins : SameMag(p)
               THEN /\ error # "DuplicateDimension"
                    /\ warned # <<>>
                    /\ \A i, j \in 1..Len(dimMatrix.columns) :
                          dimMatrix.data[i] = dimMatrix.data[j] => i = j
               ELSE error = "DuplicateDimension"

\* C4: construction fails with the constructible-base-unit error whenever
\* some dependent unit's dependency vector (its row of the echelon form's
\* transformation matrix) has every entry in {-1, 0, 1}, unless the
\* duplicate-dimension or the dependency-order check has rejected the list
\* before; after a successful construction no stored dependency vector has
\* all its entries in {-1, 0, 1}.
C4_ConstructibleUnitRejected ==
    /\ pc # "new" /\ error \notin {"DuplicateDimension", "DependencyOrder"}
          => LET ech == column_echelon_form(dimMatrix)
                 Constructible ==
                     \E k \in Range(ZeroRows(ech.M)) : IsPosNegRow(ech.I[k])
             IN  Constructible => error = "ConstructibleBaseUnit"
    /\ pc = "ready"
          => \A k \in 1..Len(dimAnalysis.dependentDims) :
                ~IsPosNegRow(dimAnalysis.dependentDims[k])

\* C5: with the base units GW and hour construction succeeds, and GWh and
\* kWh are resolved by the linear solve, to the multipliers 1.0 and 0.001.
C5_ScenarioBResolvedBySolve ==
    listBaseUnits = <<"GW", "hour">> /\ pc # "new"
        => /\ pc = "ready"
           /\ call.unit \in {"GWh", "kWh"}
                => /\ call.kind = "return"
                   /\ call.path = "solve"
                   /\ call.value =
                        Round(IF call.unit = "GWh" THEN <<0, 0, 0, 0>>
                                                   ELSE <<-3, 0, -3, 0>>,
                              roundingDecimalPoints)

\* C6: repeated declarations of a symbol never make construction fail (when
\* no two distinct declared symbols share a dimensionality, the
\* duplicate-dimension error is not raised, however often a symbol is
\* repeated), and after a successful construction the matrix has exactly one
\* column per distinct declared symbol and no two identical columns.
C6_OneColumnPerDeclaredSymbol ==
    LET list == listBaseUnits
        OnlyRepeats ==
            \A i, j \in 1..Len(list) :
                Registry[list[i]].dims = Registry[list[j]].dims
                    => list[i] = list[j]
    IN  /\ pc # "new" /\ OnlyRepeats => error # "DuplicateDimension"
        /\ pc = "ready"
              => /\ Range(dimMatrix.columns) = Range(list)
                 /\ Len(dimMatrix.columns) = Cardinality(Range(list))
                 /\ \A i, j \in 1..Len(dimMatrix.columns) :
                       dimMatrix.data[i] = dimMatrix.data[j] => i = j

\* C7: after a successful construction with at least one dependent unit,
\* there is one stored dependency vector per dependent unit and row k has a
\* 1 in the column of dependent unit k.
C7_DependencyRowsMatchUnits ==
    pc = "ready" /\ Len(dimAnalysis.dependentUnits) >= 1
        => /\ Len(dimAnalysis.dependentDims) = Len(dimAnalysis.dependentUnits)
           /\ \A k \in 1..Len(dimAnalysis.dependentUnits) :
                 RIsOne(dimAnalysis.dependentDims[k]
                            [IndexOf(dimMatrix.columns,
                                     dimAnalysis.dependentUnits[k])])

\* C8: in the substitution fallback a dependent unit d is tried for an
\* independent unit i with |x_i| > 1 exactly when |d's dependency-vector
\* entry for i| = |x_i|, the entry being the one in i's column of the
\* dimensionality matrix; stated for the calls that end with the
\* unresolved-conversion error, in which the loop has run over every pair.
C8_SubstituteReadsEntryOfUnit ==
    Called /\ call.kind = "UnresolvedConversion"
        => LET dm   == built.dimMatrix
               deps == built.dimAnalysis
               red  == DropLabels(dm.columns, deps.dependentUnits)
               sol  == solve(Tuple(Len(red), LAMBDA j : ColumnData(dm, red[j])),
                             ColumnOf(call.unit, dm.index))
               nDep == IF Len(deps.dependentUnits) < Len(deps.dependentDims)
                       THEN Len(deps.dependentUnits) ELSE Len(deps.dependentDims)
               Entry(p, q) ==
                   deps.dependentDims[q][IndexOf(dm.columns, red[p])]
               Pairs == {t \in (1..Len(red)) \X (1..nDep) :
                            /\ OverPowered(sol.x[t[1]])
                            /\ RAbs(Entry(t[1], t[2])) = RAbs(sol.x[t[1]])}
           IN  call.tried = {<<red[t[1]], deps.dependentUnits[t[2]]>> : t \in Pairs}

\* C9 as stated: for a non-base, present, non-'h' input whose dimensions are
\* covered, a direct match returns magnitude(input) / magnitude(base unit)
\* without trying the inverse match or the solve; else an inverse match
\* returns magnitude(input) * magnitude(base unit) without the solve; the
\* solve is reached only when neither match exists.
C9_FirstMatchReturnsRatio ==
    LET dm      == built.dimMatrix
        u       == call.unit
        Covered == \A i \in Range(DimKeys(u)) : i \in Range(dm.index)
    IN  Called /\ u \notin Range(built.baseUnits) /\ u # NaN
        /\ ~Registry[u].planck /\ Covered
        => LET v        == ColumnOf(u, dm.index)
               direct   == MatchingColumns(dm, v)
               inverse  == MatchingColumns(dm, Negated(v))
               steps    == Range(call.steps)
               Ratio(b, k) == TimesPower(Quantity(u), b, k).mag
               Is(m)    == /\ call.kind = "return"
                           /\ call.value = [mag |-> m, rounded |-> FALSE]
           IN  /\ direct # <<>>
                    => /\ Is(Ratio(direct[1], -1))
                       /\ call.path = "direct"
                       /\ "inverse" \notin steps /\ "solve" \notin steps
               /\ direct = <<>> /\ inverse # <<>>
                    => /\ Is(Ratio(inverse[1], 1))
                       /\ call.path = "inverse"
                       /\ "solve" \notin steps
               /\ "solve" \in steps <=> direct = <<>> /\ inverse = <<>>

\* C9 amended: the steps are tried in that order and the first match wins,
\* and the matched step fixes the combined factor (magnitude(input) divided
\* by, or multiplied with, the magnitude of the first matching base unit);
\* the call then returns that factor rounded to roundingDecimalPoints, or
\* fails with the tolerance error when the factor is below
\* 10^-roundingDecimalPoints.
C9_FirstMatchFixesCombinedFactor ==
    LET dm      == built.dimMatrix
        u       == call.unit
        Covered == \A i \in Range(DimKeys(u)) : i \in Range(dm.index)
    IN  Called /\ u \notin Range(built.baseUnits) /\ u # NaN
        /\ ~Registry[u].planck /\ Covered
        => LET v        == ColumnOf(u, dm.index)
               direct   == MatchingColumns(dm, v)
               inverse  == MatchingColumns(dm, Negated(v))
               steps    == Range(call.steps)
               Ratio(b, k) == TimesPower(Quantity(u), b, k).mag
               Is(m)    ==
                   /\ call.combined = m
                   /\ IF AboveTolerance(m, roundingDecimalPoints)
                      THEN /\ call.kind = "return"
                           /\ call.value = Round(m, roundingDecimalPoints)
                      ELSE call.kind = "Tolerance"
           IN  /\ direct # <<>>
                    => /\ Is(Ratio(direct[1], -1))
                       /\ call.path = "direct"
                       /\ "inverse" \notin steps /\ "solve" \notin steps
               /\ direct = <<>> /\ inverse # <<>>
                    => /\ Is(Ratio(inverse[1], 1))
                       /\ call.path = "inverse"
                       /\ "solve" \notin steps
               /\ "solve" \in steps <=> direct = <<>> /\ inverse = <<>>

\* a direct match returned a factor that rounding changed
C9_Witness ==
    /\ Called
    /\ call.path = "direct"
    /\ call.kind = "return"
    /\ call.value.rounded

====
